---- MODULE Spec2Model ----
(***************************************************************************)
(* Model of the classic netCDF (CDF-1 / CDF-2) decoder of netcdf-rs.       *)
(* The byte source is a sequence of bytes `src` with a forward-only cursor *)
(* `pos` (number of bytes consumed so far).  Every decoding function of    *)
(* src/src/reader.rs is an operator from (source, cursor, arguments) to a  *)
(* result record [ok, val, pos, err]: Rust's Result together with the      *)
(* cursor the reader is left at.  load_reader / read_header / read_data    *)
(* are the state machine: one action per statement of those functions.     *)
(***************************************************************************)
EXTENDS Integers, Sequences, FiniteSets, TLC

VARIABLES
    src,        \* the bytes of the source
    pos,        \* number of bytes consumed from the source
    pc,         \* position of the running call
    version,    \* read_header: let version
    numrecs,    \* read_header: let numrecs
    dim_list,   \* read_header: let dim_list
    att_list,   \* read_header: let att_list
    var_list,   \* read_header: let var_list
    header,     \* load_reader: let header
    non_recs,   \* read_data: let non_recs
    recs,       \* read_data: let recs
    result,     \* the NetCDF returned by load_reader
    err,        \* the NetCDFError returned by load_reader
    input,      \* description of how src was built (never read by the decoder)
    args,       \* arguments of a directly called function
    ret,        \* result record of a directly called function
    iter        \* iterations completed by a loop that is run step by step

vars == <<src, pos, pc, version, numrecs, dim_list, att_list, var_list,
          header, non_recs, recs, result, err, input, args, ret, iter>>

(***************************************************************************)
(* Bounds of the model                                                     *)
(***************************************************************************)
MaxNvals == 5
MaxUnitSrc == 12
MaxNameLen == 4

(***************************************************************************)
(* Markers                                                                 *)
(***************************************************************************)
STREAMING == <<255, 255, 255, 255>>
ZERO == <<0, 0, 0, 0>>

NC_DIMENSION == <<0, 0, 0, 10>>
NC_VARIABLE == <<0, 0, 0, 11>>
NC_ATTRIBUTE == <<0, 0, 0, 12>>

NC_BYTE == <<0, 0, 0, 1>>
NC_CHAR == <<0, 0, 0, 2>>
NC_SHORT == <<0, 0, 0, 3>>
NC_INT == <<0, 0, 0, 4>>
NC_FLOAT == <<0, 0, 0, 5>>
NC_DOUBLE == <<0, 0, 0, 6>>

VERSION1 == <<67, 68, 70, 1>>
VERSION2 == <<67, 68, 70, 2>>
VERSION4 == <<137, 72, 68, 70>>

(***************************************************************************)
(* Result<T, NetCDFError> plus the cursor the reader is left at            *)
(***************************************************************************)
Ok(v, p) == [ok |-> TRUE, val |-> v, pos |-> p, err |-> <<>>]

Err(e, p) == [ok |-> FALSE, val |-> <<>>, pos |-> p, err |-> e]

IOError == <<"IOError">>

Min(a, b) == IF a < b THEN a ELSE b

(***************************************************************************)
(* Read::read_exact on a finite source: fills the buffer or, at end of     *)
(* input, fails after having consumed what was left.                       *)
(***************************************************************************)
ReadExact(s, p, n) ==
    IF p + n <= Len(s)
    THEN Ok(SubSeq(s, p + 1, p + n), p + n)
    ELSE Err(IOError, Len(s))

(***************************************************************************)
(* u32::from_be_bytes / u64::from_be_bytes.  The integers of TLC end at    *)
(* 2^31 - 1: a u32 v at or above 2^31 is held as v - 2^32, a negative      *)
(* number, which keeps v mod 4 and the order among such values.            *)
(***************************************************************************)
RECURSIVE BeAcc(_, _, _)
BeAcc(buf, i, acc) ==
    IF i > Len(buf) THEN acc ELSE BeAcc(buf, i + 1, acc * 256 + buf[i])

FromBeBytes(buf) ==
    IF Len(buf) = 4 /\ buf[1] >= 128
    THEN BeAcc(buf, 2, buf[1] - 256)
    ELSE BeAcc(buf, 1, 0)

\* n * 2 on u32, wrapping at 2^32
WrappingMul2(n) ==
    IF n >= 1073741824 THEN 2 * (n - 2147483647 - 1)
    ELSE IF n < -1073741824 THEN 2 * (n + 2147483647 + 1)
    ELSE 2 * n

\* n * 2 does not fit a u32: n is at or above 2^31
Mul2Overflows(n) == n < 0

\* the thread unwinds with a panic: the call returns neither Ok nor Err
Panic(p) == [ok |-> FALSE, val |-> <<>>, pos |-> p, err |-> <<"panic">>]

\* i16::from_be_bytes / i32::from_be_bytes: two's complement
SignedFromBeBytes(buf) ==
    IF buf[1] >= 128
    THEN BeAcc(buf, 2, buf[1] - 256)
    ELSE BeAcc(buf, 1, 0)

(***************************************************************************)
(* String::from_utf8: the bytes are kept when they are well-formed UTF-8   *)
(***************************************************************************)
IsCont(b) == b >= 128 /\ b <= 191

\* the first byte from i on that is not ASCII; a run of ASCII bytes is
\* passed over in one step
NextNonAscii(b, i) ==
    CHOOSE j \in i..Len(b) : b[j] >= 128 /\ \A k \in i..(j - 1) : b[k] < 128

RECURSIVE Utf8Valid(_, _)
Utf8Valid(b, i0) ==
    IF \A k \in i0..Len(b) : b[k] < 128 THEN TRUE
    ELSE LET i == NextNonAscii(b, i0) IN
    IF b[i] >= 194 /\ b[i] <= 223
         THEN i + 1 <= Len(b) /\ IsCont(b[i + 1]) /\ Utf8Valid(b, i + 2)
    ELSE IF b[i] >= 224 /\ b[i] <= 239
         THEN /\ i + 2 <= Len(b)
              /\ IsCont(b[i + 1]) /\ IsCont(b[i + 2])
              /\ (b[i] = 224 => b[i + 1] >= 160)
              /\ (b[i] = 237 => b[i + 1] <= 159)
              /\ Utf8Valid(b, i + 3)
    ELSE IF b[i] >= 240 /\ b[i] <= 244
         THEN /\ i + 3 <= Len(b)
              /\ IsCont(b[i + 1]) /\ IsCont(b[i + 2]) /\ IsCont(b[i + 3])
              /\ (b[i] = 240 => b[i + 1] >= 144)
              /\ (b[i] = 244 => b[i + 1] <= 143)
              /\ Utf8Valid(b, i + 4)
    ELSE FALSE

FromUtf8(b) == IF Utf8Valid(b, 1) THEN Ok(b, 0) ELSE Err(<<"FromUtf8", b>>, 0)

(***************************************************************************)
(* `let x = f(reader)?; rest` is written                                   *)
(*     The({IF ~x.ok THEN x ELSE rest : x \in {f(..)}})                    *)
(* the result x of f is computed once; an Err is returned as it is, an Ok  *)
(* is handed to the rest of the function.                                  *)
(***************************************************************************)
The(S) == CHOOSE y \in S : TRUE

(***************************************************************************)
(* read_name: 4-byte length, then take(length).read_to_end                 *)
(***************************************************************************)
read_name(s, p) ==
    The({IF ~buffer1.ok THEN buffer1 ELSE
        LET name_length == FromBeBytes(buffer1.val)
            got == IF name_length < 0 THEN Len(s) - buffer1.pos
                   ELSE Min(name_length, Len(s) - buffer1.pos)
            buffer2 == SubSeq(s, buffer1.pos + 1, buffer1.pos + got)
            u == FromUtf8(buffer2)
        IN  IF u.ok THEN Ok(u.val, buffer1.pos + got)
                    ELSE Err(u.err, buffer1.pos + got)
         : buffer1 \in {ReadExact(s, p, 4)}})

read_number_of_elements(s, p) ==
    The({IF ~buffer.ok THEN buffer ELSE Ok(FromBeBytes(buffer.val), buffer.pos)
         : buffer \in {ReadExact(s, p, 4)}})

read_nc_type(s, p) ==
    The({IF ~r.ok THEN r ELSE
        IF r.val = NC_BYTE THEN Ok("NCByte", r.pos)
        ELSE IF r.val = NC_CHAR THEN Ok("NCChar", r.pos)
        ELSE IF r.val = NC_SHORT THEN Ok("NCShort", r.pos)
        ELSE IF r.val = NC_INT THEN Ok("NCInt", r.pos)
        ELSE IF r.val = NC_FLOAT THEN Ok("NCFloat", r.pos)
        ELSE IF r.val = NC_DOUBLE THEN Ok("NCDouble", r.pos)
        ELSE Err(<<"NCType", r.val>>, r.pos)
         : r \in {ReadExact(s, p, 4)}})

(***************************************************************************)
(* read_values                                                             *)
(***************************************************************************)
NetCDFValue(nc_type, buffer) ==
    CASE nc_type = "NCByte" -> <<"Byte", buffer[1]>>
      [] nc_type = "NCChar" -> <<"Char", buffer[1]>>
      [] nc_type = "NCShort" -> <<"Short", SignedFromBeBytes(buffer)>>
      [] nc_type = "NCInt" -> <<"Int", SignedFromBeBytes(buffer)>>
      [] nc_type = "NCFloat" -> <<"Float", buffer>>
      [] nc_type = "NCDouble" -> <<"Double", buffer>>

BufferLen(nc_type) ==
    CASE nc_type = "NCByte" -> 1
      [] nc_type = "NCChar" -> 1
      [] nc_type = "NCShort" -> 2
      [] nc_type = "NCInt" -> 4
      [] nc_type = "NCFloat" -> 4
      [] nc_type = "NCDouble" -> 8

\* for _ in 0..nvals { reader.read_exact(&mut buffer)?; result.push(..) }
RECURSIVE ValueLoop(_, _, _, _, _)
ValueLoop(s, p, nc_type, n, acc) ==
    IF n = 0 THEN Ok(acc, p)
    ELSE The({IF ~r.ok THEN r ELSE
             ValueLoop(s, r.pos, nc_type, n - 1,
                       Append(acc, NetCDFValue(nc_type, r.val)))
              : r \in {ReadExact(s, p, BufferLen(nc_type))}})

\* for _ in 0..padding { reader.read_exact(&mut buffer)?; }
RECURSIVE PaddingLoop(_, _, _, _)
PaddingLoop(s, p, w, n) ==
    IF n = 0 THEN Ok(<<>>, p)
    ELSE The({IF ~r.ok THEN r ELSE PaddingLoop(s, r.pos, w, n - 1)
              : r \in {ReadExact(s, p, w)}})

Padding(nc_type, nvals) ==
    CASE nc_type \in {"NCByte", "NCChar"} -> nvals % 4
      [] nc_type = "NCShort" -> IF WrappingMul2(nvals) % 4 = 2 THEN 1 ELSE 0
      [] OTHER -> 0

\* `nvals * 2` (NCShort) is checked for overflow when the crate is built
\* with overflow checks (the default of a debug build) and wraps otherwise
read_values(s, p, nc_type, nvals, overflow_checks) ==
    IF nc_type = "NCShort" /\ Mul2Overflows(nvals) /\ overflow_checks
    THEN Panic(p) ELSE
    The({IF ~vals.ok THEN vals ELSE
        The({IF ~q.ok THEN q ELSE
             Ok(vals.val, q.pos)
             : q \in {PaddingLoop(s, vals.pos, BufferLen(nc_type), Padding(nc_type, nvals))}})
         : vals \in {ValueLoop(s, p, nc_type, nvals, <<>>)}})

(***************************************************************************)
(* Elements of the three lists                                             *)
(***************************************************************************)
read_dimension(s, p) ==
    The({IF ~name.ok THEN name ELSE
    The({IF ~length.ok THEN length ELSE
        Ok([name |-> name.val, length |-> length.val], length.pos)
         : length \in {read_number_of_elements(s, name.pos)}})
         : name \in {read_name(s, p)}})

read_attribute(s, p, overflow_checks) ==
    The({IF ~name.ok THEN name ELSE
    The({IF ~nc_type.ok THEN nc_type ELSE
    The({IF ~nvals.ok THEN nvals ELSE
    The({IF ~values.ok THEN values ELSE
        Ok([name |-> name.val, values |-> values.val], values.pos)
         : values \in {read_values(s, nvals.pos, nc_type.val, nvals.val, overflow_checks)}})
         : nvals \in {read_number_of_elements(s, nc_type.pos)}})
         : nc_type \in {read_nc_type(s, name.pos)}})
         : name \in {read_name(s, p)}})

\* for _ in 0..nelems { reader.read_exact(&mut buffer)?; result.push(dim_id) }
RECURSIVE DimIdLoop(_, _, _, _)
DimIdLoop(s, p, n, acc) ==
    IF n = 0 THEN Ok(acc, p)
    ELSE The({IF ~r.ok THEN r ELSE
             DimIdLoop(s, r.pos, n - 1, Append(acc, FromBeBytes(r.val)))
              : r \in {ReadExact(s, p, 4)}})

read_dimension_ids(s, p) ==
    The({IF ~nelems.ok THEN nelems ELSE
        DimIdLoop(s, nelems.pos, nelems.val, <<>>)
         : nelems \in {read_number_of_elements(s, p)}})

\* read_offset with the CDF02 arm a copy of the CDF01 arm
read_offset_same_width(s, p, ver) ==
    IF ver \in {"CDF01", "CDF02"}
    THEN The({IF ~r.ok THEN r ELSE Ok(<<"Pos32", FromBeBytes(r.val)>>, r.pos)
              : r \in {ReadExact(s, p, 4)}})
    ELSE Err(<<"UnknownOffsetVersion">>, p)

read_offset(s, p, ver) ==
    IF ver = "CDF01"
    THEN The({IF ~r.ok THEN r ELSE Ok(<<"Pos32", FromBeBytes(r.val)>>, r.pos)
              : r \in {ReadExact(s, p, 4)}})
    ELSE IF ver = "CDF02"
    THEN The({IF ~r.ok THEN r ELSE Ok(<<"Pos64", FromBeBytes(r.val)>>, r.pos)
              : r \in {ReadExact(s, p, 8)}})
    ELSE Err(<<"UnknownOffsetVersion">>, p)

(***************************************************************************)
(* The lists: two tags, then `nelem` elements                              *)
(***************************************************************************)
\* for _ in 0..nelem { let dimension = read_dimension(reader)?; result.push(dimension) }
RECURSIVE DimLoop(_, _, _, _)
DimLoop(s, p, n, acc) ==
    IF n = 0 THEN Ok(acc, p)
    ELSE The({IF ~r.ok THEN r ELSE
             DimLoop(s, r.pos, n - 1, Append(acc, r.val))
              : r \in {read_dimension(s, p)}})

\* read_dim_list taking a zero first tag alone for the empty list
read_dim_list_zero_first(s, p) ==
    The({IF ~b1.ok THEN b1 ELSE
    The({IF ~b2.ok THEN b2 ELSE
        IF b1.val = ZERO THEN Ok(<<>>, b2.pos)
        ELSE IF b1.val = NC_DIMENSION
             THEN DimLoop(s, b2.pos, FromBeBytes(b2.val), <<>>)
        ELSE Err(<<"DimListTag", b1.val, b2.val>>, b2.pos)
         : b2 \in {ReadExact(s, b1.pos, 4)}})
         : b1 \in {ReadExact(s, p, 4)}})

read_dim_list(s, p) ==
    The({IF ~b1.ok THEN b1 ELSE
    The({IF ~b2.ok THEN b2 ELSE
        IF b1.val = ZERO /\ b2.val = ZERO THEN Ok(<<>>, b2.pos)
        ELSE IF b1.val = NC_DIMENSION
             THEN DimLoop(s, b2.pos, FromBeBytes(b2.val), <<>>)
        ELSE Err(<<"DimListTag", b1.val, b2.val>>, b2.pos)
         : b2 \in {ReadExact(s, b1.pos, 4)}})
         : b1 \in {ReadExact(s, p, 4)}})

RECURSIVE AttLoop(_, _, _, _, _)
AttLoop(s, p, n, acc, overflow_checks) ==
    IF n = 0 THEN Ok(acc, p)
    ELSE The({IF ~r.ok THEN r ELSE
             AttLoop(s, r.pos, n - 1, Append(acc, r.val), overflow_checks)
              : r \in {read_attribute(s, p, overflow_checks)}})

\* read_att_list without the (ZERO, ZERO) arm
read_att_list_no_empty(s, p, overflow_checks) ==
    The({IF ~b1.ok THEN b1 ELSE
    The({IF ~b2.ok THEN b2 ELSE
        IF b1.val = NC_ATTRIBUTE
        THEN AttLoop(s, b2.pos, FromBeBytes(b2.val), <<>>, overflow_checks)
        ELSE Err(<<"AttrListTag", b1.val, b2.val>>, b2.pos)
         : b2 \in {ReadExact(s, b1.pos, 4)}})
         : b1 \in {ReadExact(s, p, 4)}})

read_att_list(s, p, overflow_checks) ==
    The({IF ~b1.ok THEN b1 ELSE
    The({IF ~b2.ok THEN b2 ELSE
        IF b1.val = ZERO /\ b2.val = ZERO THEN Ok(<<>>, b2.pos)
        ELSE IF b1.val = NC_ATTRIBUTE
             THEN AttLoop(s, b2.pos, FromBeBytes(b2.val), <<>>, overflow_checks)
        ELSE Err(<<"AttrListTag", b1.val, b2.val>>, b2.pos)
         : b2 \in {ReadExact(s, b1.pos, 4)}})
         : b1 \in {ReadExact(s, p, 4)}})

read_variable(s, p, ver, overflow_checks) ==
    The({IF ~name.ok THEN name ELSE
    The({IF ~dimid.ok THEN dimid ELSE
    The({IF ~atts.ok THEN atts ELSE
    The({IF ~nc_type.ok THEN nc_type ELSE
    The({IF ~vsize.ok THEN vsize ELSE
    The({IF ~offset.ok THEN offset ELSE
        Ok([name |-> name.val, dimid |-> dimid.val, att_list |-> atts.val,
            nc_type |-> nc_type.val, vsize |-> vsize.val, offset |-> offset.val],
           offset.pos)
         : offset \in {read_offset(s, vsize.pos, ver)}})
         : vsize \in {read_number_of_elements(s, nc_type.pos)}})
         : nc_type \in {read_nc_type(s, atts.pos)}})
         : atts \in {read_att_list(s, dimid.pos, overflow_checks)}})
         : dimid \in {read_dimension_ids(s, name.pos)}})
         : name \in {read_name(s, p)}})

RECURSIVE VarLoop(_, _, _, _, _, _)
VarLoop(s, p, ver, n, acc, overflow_checks) ==
    IF n = 0 THEN Ok(acc, p)
    ELSE The({IF ~r.ok THEN r ELSE
             VarLoop(s, r.pos, ver, n - 1, Append(acc, r.val), overflow_checks)
              : r \in {read_variable(s, p, ver, overflow_checks)}})

read_var_list(s, p, ver, overflow_checks) ==
    The({IF ~b1.ok THEN b1 ELSE
    The({IF ~b2.ok THEN b2 ELSE
        IF b1.val = ZERO /\ b2.val = ZERO THEN Ok(<<>>, b2.pos)
        ELSE IF b1.val = NC_VARIABLE
             THEN VarLoop(s, b2.pos, ver, FromBeBytes(b2.val), <<>>, overflow_checks)
        ELSE Err(<<"AttrListTag", b1.val, b2.val>>, b2.pos)
         : b2 \in {ReadExact(s, b1.pos, 4)}})
         : b1 \in {ReadExact(s, p, 4)}})

\* read_version without the VERSION4 arm
read_version_no_hdf5(s, p) ==
    The({IF ~r.ok THEN r ELSE
        IF r.val = VERSION1 THEN Ok("CDF01", r.pos)
        ELSE IF r.val = VERSION2 THEN Ok("CDF02", r.pos)
        ELSE Err(<<"UnknownVersion", r.val>>, r.pos)
         : r \in {ReadExact(s, p, 4)}})

read_version(s, p) ==
    The({IF ~r.ok THEN r ELSE
        IF r.val = VERSION1 THEN Ok("CDF01", r.pos)
        ELSE IF r.val = VERSION2 THEN Ok("CDF02", r.pos)
        ELSE IF r.val = VERSION4 THEN Ok("HDF5", r.pos)
        ELSE Err(<<"UnknownVersion", r.val>>, r.pos)
         : r \in {ReadExact(s, p, 4)}})

read_numrecs(s, p) ==
    The({IF ~r.ok THEN r ELSE
        IF r.val = STREAMING THEN Ok(<<"Streaming">>, r.pos)
        ELSE Ok(<<"Normal", FromBeBytes(r.val)>>, r.pos)
         : r \in {ReadExact(s, p, 4)}})

read_non_records(s, p) == Ok(<<>>, p)

read_records(s, p) == Ok(<<>>, p)

(***************************************************************************)
(* read_header as one function of the source: what the steps of the state  *)
(* machine below compute one statement at a time                           *)
(***************************************************************************)
read_header(s, p, overflow_checks) ==
    The({IF ~ver.ok THEN ver ELSE
        IF ver.val = "HDF5" THEN Err(<<"HDF5NotSupportetYet">>, ver.pos) ELSE
    The({IF ~nrec.ok THEN nrec ELSE
    The({IF ~dims.ok THEN dims ELSE
    The({IF ~atts.ok THEN atts ELSE
    The({IF ~vlist.ok THEN vlist ELSE
        Ok([version |-> ver.val, numrecs |-> nrec.val, dim_list |-> dims.val,
            att_list |-> atts.val, var_list |-> vlist.val], vlist.pos)
         : vlist \in {read_var_list(s, atts.pos, ver.val, overflow_checks)}})
         : atts \in {read_att_list(s, dims.pos, overflow_checks)}})
         : dims \in {read_dim_list(s, nrec.pos)}})
         : nrec \in {read_numrecs(s, ver.pos)}})
         : ver \in {read_version(s, p)}})

(***************************************************************************)
(* The classic netCDF layout, used to build the sources the decoder is     *)
(* run on.  A file is described by a record f:                             *)
(*   ver       1 or 2                                                      *)
(*   streaming TRUE when numrecs is the Streaming sentinel                 *)
(*   nameLen   length of every name of the file                            *)
(*   dimLens   the lengths of the dimensions, in dim_list order            *)
(*   att       <<>> or <<type, nvals>>: the one attribute of the global    *)
(*             list and of every variable's list                           *)
(*   nvars     number of variables; variable j has the one dimension j-1   *)
(*             when that dimension exists and is a scalar otherwise        *)
(*   nrecs     number of records held by the data section                  *)
(***************************************************************************)
MaxDims == 2
MaxVars == 2
MaxAttVals == 1
MaxRecs == 2

TypeTags == <<NC_BYTE, NC_CHAR, NC_SHORT, NC_INT, NC_FLOAT, NC_DOUBLE>>

TypeNames == <<"NCByte", "NCChar", "NCShort", "NCInt", "NCFloat", "NCDouble">>

TypeWidth == <<1, 1, 2, 4, 4, 8>>

Zeros(n) == [i \in 1..n |-> 0]

PadLen(n) == (4 - (n % 4)) % 4

Be32(n) == <<0, 0, n \div 256, n % 256>>

Be64(n) == ZERO \o Be32(n)

RECURSIVE Flatten(_)
Flatten(ss) == IF ss = <<>> THEN <<>> ELSE Head(ss) \o Flatten(Tail(ss))

RECURSIVE SumSeq(_)
SumSeq(ns) == IF ns = <<>> THEN 0 ELSE Head(ns) + SumSeq(Tail(ns))

NameBytes(len) == [i \in 1..len |-> 96 + i]

EncName(len) == Be32(len) \o NameBytes(len) \o Zeros(PadLen(len))

EncDim(f, i) == EncName(f.nameLen) \o Be32(f.dimLens[i])

EncDimList(f) ==
    IF f.dimLens = <<>> THEN ZERO \o ZERO
    ELSE NC_DIMENSION \o Be32(Len(f.dimLens))
         \o Flatten([i \in 1..Len(f.dimLens) |-> EncDim(f, i)])

EncValues(t, n) ==
    [i \in 1..(n * TypeWidth[t]) |-> i] \o Zeros(PadLen(n * TypeWidth[t]))

EncAttList(f) ==
    IF f.att = <<>> THEN ZERO \o ZERO
    ELSE NC_ATTRIBUTE \o Be32(1) \o EncName(f.nameLen) \o TypeTags[f.att[1]]
         \o Be32(f.att[2]) \o EncValues(f.att[1], f.att[2])

VarType(f) == IF f.att = <<>> THEN 4 ELSE f.att[1]

VarHasDim(f, j) == j <= Len(f.dimLens)

\* a variable is a record variable when its first dimension has length 0
VarIsRec(f, j) == VarHasDim(f, j) /\ f.dimLens[j] = 0

VarElems(f, j) == IF VarHasDim(f, j) /\ ~VarIsRec(f, j) THEN f.dimLens[j] ELSE 1

VarVsize(f, j) ==
    LET n == VarElems(f, j) * TypeWidth[VarType(f)] IN n + PadLen(n)

NonRecVars(f) == {j \in 1..f.nvars : ~VarIsRec(f, j)}

RecVars(f) == {j \in 1..f.nvars : VarIsRec(f, j)}

NonRecSize(f) == SumSeq([j \in 1..f.nvars |-> IF VarIsRec(f, j) THEN 0 ELSE VarVsize(f, j)])

\* the record stride: the sum of the record variables' vsize
RecSize(f) == SumSeq([j \in 1..f.nvars |-> IF VarIsRec(f, j) THEN VarVsize(f, j) ELSE 0])

\* begin of variable j relative to the start of the data section
VarBegin(f, j) ==
    IF VarIsRec(f, j)
    THEN NonRecSize(f)
         + SumSeq([k \in 1..(j - 1) |-> IF VarIsRec(f, k) THEN VarVsize(f, k) ELSE 0])
    ELSE SumSeq([k \in 1..(j - 1) |-> IF VarIsRec(f, k) THEN 0 ELSE VarVsize(f, k)])

EncOffset(f, n) == IF f.ver = 1 THEN Be32(n) ELSE Be64(n)

EncVar(f, j, base) ==
    EncName(f.nameLen)
    \o (IF VarHasDim(f, j) THEN Be32(1) \o Be32(j - 1) ELSE Be32(0))
    \o EncAttList(f)
    \o TypeTags[VarType(f)]
    \o Be32(VarVsize(f, j))
    \o EncOffset(f, base + VarBegin(f, j))

EncVarList(f, base) ==
    IF f.nvars = 0 THEN ZERO \o ZERO
    ELSE NC_VARIABLE \o Be32(f.nvars)
         \o Flatten([j \in 1..f.nvars |-> EncVar(f, j, base)])

EncHeaderAt(f, base) ==
    (IF f.ver = 1 THEN VERSION1 ELSE VERSION2)
    \o (IF f.streaming THEN STREAMING ELSE Be32(f.nrecs))
    \o EncDimList(f) \o EncAttList(f) \o EncVarList(f, base)

HeaderLen(f) == Len(EncHeaderAt(f, 0))

EncHeader(f) == EncHeaderAt(f, HeaderLen(f))

EncData(f) ==
    [i \in 1..(NonRecSize(f) + (IF RecVars(f) = {} THEN 0 ELSE f.nrecs * RecSize(f)))
        |-> 1 + (i % 100)]

EncFile(f) == EncHeader(f) \o EncData(f)

(***************************************************************************)
(* The sources load_reader is run on: every file of the bounded family,    *)
(* and files with one field overwritten (the version marker, the two tags  *)
(* of a list, the type tag of the global attribute).                       *)
(***************************************************************************)
DimLenSeqs == UNION {[1..n -> {0, 2}] : n \in 0..MaxDims}

AttChoices == {<<>>} \cup {<<t, n>> : t \in 1..6, n \in 0..MaxAttVals}

Files ==
    [ver : {1, 2}, streaming : BOOLEAN, nameLen : 0..MaxNameLen,
     dimLens : DimLenSeqs, att : AttChoices, nvars : 0..MaxVars,
     nrecs : 0..MaxRecs]

PatchBases ==
    {f \in [ver : {1, 2}, streaming : {FALSE}, nameLen : 0..MaxNameLen,
            dimLens : {<<>>, <<0>>, <<2>>}, att : {<<>>, <<1, 1>>, <<4, 1>>},
            nvars : {0, 1}, nrecs : {0}] : TRUE}

OtherVersions == {VERSION4, ZERO, <<67, 68, 70, 3>>, <<1, 70, 68, 67>>}

OtherTag == <<0, 0, 0, 153>>

TagPairs(marker) ==
    {t1 \o t2 : t1 \in {OtherTag, ZERO, NC_DIMENSION, NC_VARIABLE, NC_ATTRIBUTE} \ {marker},
                t2 \in {ZERO, <<0, 0, 0, 1>>}} \ {ZERO \o ZERO}

OtherTypes == {<<0, 0, 0, 7>>, ZERO, <<0, 0, 0, 255>>, <<1, 0, 0, 0>>}

DimListAt(f) == 8

AttListAt(f) == DimListAt(f) + Len(EncDimList(f))

VarListAt(f) == AttListAt(f) + Len(EncAttList(f))

AttTypeAt(f) == AttListAt(f) + 8 + Len(EncName(f.nameLen))

\* the dimension-id count of the first variable
DimIdsAt(f) == VarListAt(f) + 8 + Len(EncName(f.nameLen))

Intact == {[file |-> f, kind |-> "file", patch |-> <<>>] : f \in Files}

Patched ==
    {[file |-> f, kind |-> "version", patch |-> w] : f \in PatchBases, w \in OtherVersions}
    \cup {[file |-> f, kind |-> "dimtag", patch |-> w] :
             f \in PatchBases, w \in TagPairs(NC_DIMENSION)}
    \cup {[file |-> f, kind |-> "atttag", patch |-> w] :
             f \in PatchBases, w \in TagPairs(NC_ATTRIBUTE)}
    \cup {[file |-> f, kind |-> "vartag", patch |-> w] :
             f \in PatchBases, w \in TagPairs(NC_VARIABLE)}
    \cup {[file |-> f, kind |-> "nctype", patch |-> w] :
             f \in {g \in PatchBases : g.att # <<>>}, w \in OtherTypes}

Inputs == Intact \cup Patched

PatchAt(in) ==
    CASE in.kind = "version" -> 0
      [] in.kind = "dimtag" -> DimListAt(in.file)
      [] in.kind = "atttag" -> AttListAt(in.file)
      [] in.kind = "vartag" -> VarListAt(in.file)
      [] in.kind = "nctype" -> AttTypeAt(in.file)
      [] in.kind = "dimcount" -> DimListAt(in.file) + 4
      [] in.kind = "namelen" -> DimListAt(in.file) + 8
      [] in.kind = "attcount" -> AttListAt(in.file) + 4
      [] in.kind = "nvals" -> AttTypeAt(in.file) + 4
      [] in.kind = "varcount" -> VarListAt(in.file) + 4
      [] in.kind = "dimids" -> DimIdsAt(in.file)
      [] OTHER -> 0

Overwrite(s, at, w) ==
    [i \in 1..Len(s) |-> IF i > at /\ i <= at + Len(w) THEN w[i - at] ELSE s[i]]

Source(in) == Overwrite(EncFile(in.file), PatchAt(in), in.patch)

(***************************************************************************)
(* Sources that end early, and sources that declare more elements than     *)
(* they hold: a file with one of its counts overwritten by 2^31 - 1, every *)
(* source cut after each number of bytes.                                  *)
(***************************************************************************)
Huge == <<127, 255, 255, 255>>

\* u32::MAX, a count whose double does not fit a u32
High == <<255, 255, 255, 255>>

CountBases ==
    [ver : {1, 2}, streaming : {FALSE}, nameLen : {0, 1},
     dimLens : {<<2>>}, att : {<<1, 1>>, <<4, 1>>}, nvars : {1}, nrecs : {0}]

CountKinds == {"dimcount", "namelen", "attcount", "varcount", "dimids"}

\* the count of values is overwritten in files without variables, where few
\* bytes follow the values
Counted ==
    {[file |-> f, kind |-> k, patch |-> Huge] : f \in CountBases, k \in CountKinds}
    \cup {[file |-> [f EXCEPT !.nvars = 0], kind |-> "nvals", patch |-> Huge] :
              f \in CountBases}
    \cup {[file |-> [f EXCEPT !.nvars = 0, !.att = <<t, 1>>], kind |-> "nvals",
           patch |-> High] : f \in CountBases, t \in {1, 3}}

CutFiles ==
    [ver : {1, 2}, streaming : {FALSE}, nameLen : 0..MaxNameLen,
     dimLens : {<<>>, <<2>>}, att : {<<>>, <<1, 1>>, <<4, 1>>},
     nvars : {0, 1}, nrecs : {0}]

CutBases ==
    {[file |-> f, kind |-> "file", patch |-> <<>>] : f \in CutFiles}
    \cup Counted
    \cup {[file |-> f, kind |-> "version", patch |-> VERSION4] : f \in CountBases}

CutSource(in) == SubSeq(Source(in), 1, in.cut)

\* where variable j starts in a file
VarAt(f, j) ==
    VarListAt(f) + 8 + SumSeq([k \in 1..(j - 1) |-> Len(EncVar(f, k, 0))])

\* where the names of a file start: of its dimensions, of its global
\* attribute, of its variables and of their attributes
NameStarts(f) ==
    {DimListAt(f) + 8 + (i - 1) * (Len(EncName(f.nameLen)) + 4) : i \in 1..Len(f.dimLens)}
    \cup (IF f.att = <<>> THEN {} ELSE {AttListAt(f) + 8})
    \cup {VarAt(f, j) : j \in 1..f.nvars}
    \cup (IF f.att = <<>> THEN {}
          ELSE {VarAt(f, j) + Len(EncName(f.nameLen))
                + (IF VarHasDim(f, j) THEN 8 ELSE 4) + 8 : j \in 1..f.nvars})

(***************************************************************************)
(* load_reader                                                             *)
(***************************************************************************)
\* Option: None until the statement has run, then Some(v)
None == <<>>

Some(v) == <<v>>

Init ==
    /\ input \in Inputs
    /\ src = Source(input)
    /\ pos = 0
    /\ pc = "read_version"
    /\ version = None /\ numrecs = None
    /\ dim_list = None /\ att_list = None /\ var_list = None
    /\ header = None /\ non_recs = None /\ recs = None
    /\ result = None /\ err = None
    /\ args = None /\ ret = None
    /\ iter = 0

\* the `?` operator: the error is returned to the caller of load_reader;
\* a panic unwinds through every caller and no value is returned
Fail(r) ==
    /\ pc' = IF r = Panic(r.pos) THEN "panicked" ELSE "failed"
    /\ err' = IF r = Panic(r.pos) THEN err ELSE r.err
    /\ pos' = r.pos

\* read_header: let version = read_version(reader)?;
ReadVersion ==
    /\ pc = "read_version"
    /\ LET r == read_version(src, pos) IN
       IF r.ok
       THEN /\ version' = Some(r.val) /\ pos' = r.pos /\ pc' = "match_version"
            /\ UNCHANGED err
       ELSE Fail(r) /\ UNCHANGED version
    /\ UNCHANGED <<src, numrecs, dim_list, att_list, var_list, header,
                   non_recs, recs, result, input, args, ret, iter>>

\* read_header with the HDF5 arm falling through to the `_` arm
RejectHDF5_fallthrough ==
    /\ pc = "match_version"
    /\ version = Some("HDF5")
    /\ LET r == read_numrecs(src, pos) IN
       IF r.ok
       THEN /\ numrecs' = Some(r.val) /\ pos' = r.pos /\ pc' = "read_dim_list"
            /\ UNCHANGED err
       ELSE Fail(r) /\ UNCHANGED numrecs
    /\ UNCHANGED <<src, version, dim_list, att_list, var_list, header,
                   non_recs, recs, result, input, args, ret, iter>>

\* read_header: NetCDFVersion::HDF5 => Err(NetCDFError::HDF5NotSupportetYet)
RejectHDF5 ==
    /\ pc = "match_version"
    /\ version = Some("HDF5")
    /\ Fail(Err(<<"HDF5NotSupportetYet">>, pos))
    /\ UNCHANGED <<src, version, numrecs, dim_list, att_list, var_list, header,
                   non_recs, recs, result, input, args, ret, iter>>

\* read_header: let numrecs = read_numrecs(reader)?;
ReadNumrecs ==
    /\ pc = "match_version"
    /\ version # Some("HDF5")
    /\ LET r == read_numrecs(src, pos) IN
       IF r.ok
       THEN /\ numrecs' = Some(r.val) /\ pos' = r.pos /\ pc' = "read_dim_list"
            /\ UNCHANGED err
       ELSE Fail(r) /\ UNCHANGED numrecs
    /\ UNCHANGED <<src, version, dim_list, att_list, var_list, header,
                   non_recs, recs, result, input, args, ret, iter>>

\* read_header: let dim_list = read_dim_list(reader)?;
ReadDimList ==
    /\ pc = "read_dim_list"
    /\ LET r == read_dim_list(src, pos) IN
       IF r.ok
       THEN /\ dim_list' = Some(r.val) /\ pos' = r.pos /\ pc' = "read_att_list"
            /\ UNCHANGED err
       ELSE Fail(r) /\ UNCHANGED dim_list
    /\ UNCHANGED <<src, version, numrecs, att_list, var_list, header,
                   non_recs, recs, result, input, args, ret, iter>>

\* read_header: let att_list = read_att_list(reader)?;
ReadAttList ==
    /\ pc = "read_att_list"
    /\ \E overflow_checks \in BOOLEAN :
       LET r == read_att_list(src, pos, overflow_checks) IN
       IF r.ok
       THEN /\ att_list' = Some(r.val) /\ pos' = r.pos /\ pc' = "read_var_list"
            /\ UNCHANGED err
       ELSE Fail(r) /\ UNCHANGED att_list
    /\ UNCHANGED <<src, version, numrecs, dim_list, var_list, header,
                   non_recs, recs, result, input, args, ret, iter>>

\* read_header building the Header from the lists read so far when
\* read_var_list fails
ReadVarList_partial ==
    /\ pc = "read_var_list"
    /\ \E overflow_checks \in BOOLEAN :
       LET r == read_var_list(src, pos, version[1], overflow_checks) IN
       /\ var_list' = Some(r.val) /\ pos' = r.pos /\ pc' = "read_non_records"
       /\ header' = Some([version |-> version[1], numrecs |-> numrecs[1],
                           dim_list |-> dim_list[1], att_list |-> att_list[1],
                           var_list |-> r.val])
       /\ UNCHANGED err
    /\ UNCHANGED <<src, version, numrecs, dim_list, att_list,
                   non_recs, recs, result, input, args, ret, iter>>

\* read_header: let var_list = read_var_list(reader, &version)?;
\*              Ok(NetCDFHeader{version, numrecs, dim_list, att_list, var_list})
ReadVarList ==
    /\ pc = "read_var_list"
    /\ \E overflow_checks \in BOOLEAN :
       LET r == read_var_list(src, pos, version[1], overflow_checks) IN
       IF r.ok
       THEN /\ var_list' = Some(r.val) /\ pos' = r.pos /\ pc' = "read_non_records"
            /\ header' = Some([version |-> version[1], numrecs |-> numrecs[1],
                                dim_list |-> dim_list[1], att_list |-> att_list[1],
                                var_list |-> r.val])
            /\ UNCHANGED err
       ELSE Fail(r) /\ UNCHANGED <<var_list, header>>
    /\ UNCHANGED <<src, version, numrecs, dim_list, att_list,
                   non_recs, recs, result, input, args, ret, iter>>

\* read_data: let non_recs = read_non_records(reader)?;
ReadNonRecords ==
    /\ pc = "read_non_records"
    /\ LET r == read_non_records(src, pos) IN
       IF r.ok
       THEN /\ non_recs' = Some(r.val) /\ pos' = r.pos /\ pc' = "read_records"
            /\ UNCHANGED err
       ELSE Fail(r) /\ UNCHANGED non_recs
    /\ UNCHANGED <<src, version, numrecs, dim_list, att_list, var_list, header,
                   recs, result, input, args, ret, iter>>

\* read_data: let recs = read_records(reader)?; Ok(NetCDFData{non_recs, recs})
\* load_reader: Ok(NetCDF{header, data})
ReadRecords ==
    /\ pc = "read_records"
    /\ LET r == read_records(src, pos) IN
       IF r.ok
       THEN /\ recs' = Some(r.val) /\ pos' = r.pos /\ pc' = "done"
            /\ result' = Some([header |-> header[1],
                                data |-> [non_recs |-> non_recs[1], recs |-> r.val]])
            /\ UNCHANGED err
       ELSE Fail(r) /\ UNCHANGED <<recs, result>>
    /\ UNCHANGED <<src, version, numrecs, dim_list, att_list, var_list, header,
                   non_recs, input, args, ret, iter>>

Next ==
    \/ ReadVersion
    \/ RejectHDF5
    \/ ReadNumrecs
    \/ ReadDimList
    \/ ReadAttList
    \/ ReadVarList
    \/ ReadNonRecords
    \/ ReadRecords

Spec == Init /\ [][Next]_vars

(***************************************************************************)
(* read_values called directly: every element type, every count up to      *)
(* MaxNvals, on sources of every length up to MaxUnitSrc.                  *)
(***************************************************************************)
Unused ==
    /\ version = None /\ numrecs = None
    /\ dim_list = None /\ att_list = None /\ var_list = None
    /\ header = None /\ non_recs = None /\ recs = None
    /\ result = None /\ err = None /\ input = None
    /\ iter = 0

UnitSources == {[i \in 1..n |-> i] : n \in 0..MaxUnitSrc}

InitValues ==
    /\ src \in UnitSources
    /\ pos \in {0, 1}
    /\ pos <= Len(src)
    /\ pc = "call"
    /\ args \in [nc_type : {TypeNames[t] : t \in 1..6}, nvals : 0..MaxNvals,
                 start : {pos}]
    /\ ret = None
    /\ Unused

CallReadValues ==
    /\ pc = "call"
    /\ \E overflow_checks \in BOOLEAN :
       LET r == read_values(src, pos, args.nc_type, args.nvals, overflow_checks) IN
       /\ ret' = Some(r)
       /\ pos' = r.pos
    /\ pc' = "returned"
    /\ UNCHANGED <<src, version, numrecs, dim_list, att_list, var_list, header,
                   non_recs, recs, result, err, input, args, iter>>

NextValues == CallReadValues

SpecValues == InitValues /\ [][NextValues]_vars

\* C1: a successful read_values of a Byte, Char or Short run has consumed a
\* number of bytes (payload plus padding) that is a multiple of 4.
C1_RunIsMultipleOfFour ==
    (pc = "returned" /\ ret[1].ok /\ args.nc_type \in {"NCByte", "NCChar", "NCShort"})
        => (pos - args.start) % 4 = 0

(***************************************************************************)
(* read_name called directly: a declared length, followed by as many bytes *)
(* as the source happens to hold.                                          *)
(***************************************************************************)
NameSources ==
    {SubSeq(Be32(len) \o [i \in 1..MaxUnitSrc |-> base + i], 1, n) :
        len \in 0..(MaxNameLen + 1), n \in 0..(MaxUnitSrc + 4), base \in {96, 190}}

InitName ==
    /\ src \in NameSources
    /\ pos = 0
    /\ pc = "call"
    /\ args = [start |-> 0]
    /\ ret = None
    /\ Unused

CallReadName ==
    /\ pc = "call"
    /\ LET r == read_name(src, pos) IN
       /\ ret' = Some(r)
       /\ pos' = r.pos
    /\ pc' = "returned"
    /\ UNCHANGED <<src, version, numrecs, dim_list, att_list, var_list, header,
                   non_recs, recs, result, err, input, args, iter>>

NextName == CallReadName

SpecName == InitName /\ [][NextName]_vars

\* the length a name declares: its first four bytes, big-endian
DeclaredLen == FromBeBytes(SubSeq(src, args.start + 1, args.start + 4))

\* C2: a successful read_name leaves the cursor at 4 + L + ((4 - L mod 4) mod 4)
\* bytes from the start of the name, L being the declared length.
C2_NameIsPadded ==
    (/\ pc = "returned" /\ ret[1].ok
     /\ Len(src) >= args.start + 4 + DeclaredLen + ((4 - (DeclaredLen % 4)) % 4))
        => pos = args.start + 4 + DeclaredLen + ((4 - (DeclaredLen % 4)) % 4)

(***************************************************************************)
(* load_reader on the cut sources, and every count-driven loop of the      *)
(* decoder run alone, one iteration per step, with a count that does not   *)
(* depend on what the source holds.                                        *)
(***************************************************************************)
InitCut ==
    /\ \E b \in CutBases :
          \E n \in 0..Len(Source(b)) :
              /\ input = [file |-> b.file, kind |-> b.kind, patch |-> b.patch, cut |-> n]
              /\ src = SubSeq(Source(b), 1, n)
    /\ pos = 0
    /\ pc = "read_version"
    /\ version = None /\ numrecs = None
    /\ dim_list = None /\ att_list = None /\ var_list = None
    /\ header = None /\ non_recs = None /\ recs = None
    /\ result = None /\ err = None
    /\ args = None /\ ret = None
    /\ iter = 0

Loops == {"read_dim_list", "read_att_list", "read_var_list",
          "read_dimension_ids", "read_values", "padding"}

\* the loops whose body decodes a list element; the others read a buffer
ElementLoops == {"read_dim_list", "read_att_list", "read_var_list"}

LoopBases ==
    [ver : {1, 2}, streaming : {FALSE}, nameLen : {0, 4},
     dimLens : {<<2, 0>>}, att : {<<3, 1>>, <<4, 1>>}, nvars : {2}, nrecs : {0}]

\* where the first element of the loop's list starts in a file
LoopStart(f, loop) ==
    CASE loop = "read_dim_list" -> DimListAt(f) + 8
      [] loop = "read_att_list" -> AttListAt(f) + 8
      [] loop = "read_var_list" -> VarListAt(f) + 8
      [] loop = "read_dimension_ids" -> DimIdsAt(f) + 4
      [] loop = "read_values" -> AttTypeAt(f) + 8
      [] loop = "padding" -> AttTypeAt(f) + 8

Counts == {0, 1, 2, 3, FromBeBytes(Huge)}

LoopArgs(f) ==
    {a \in [loop : Loops, nelem : Counts, nc_type : {TypeNames[t] : t \in 1..6},
             version : {IF f.ver = 1 THEN "CDF01" ELSE "CDF02"},
             start : {LoopStart(f, l) : l \in Loops}] :
        /\ a.start = LoopStart(f, a.loop)
        /\ a.loop = "padding" => a.nc_type \in {"NCByte", "NCChar"}
        /\ a.loop \notin {"read_values", "padding"} => a.nc_type = "NCByte"}

\* the number of iterations the loop is asked for: `nelem`, and for the
\* padding loop `size_in_bytes % 4`
LoopCount(a) == IF a.loop = "padding" THEN a.nelem % 4 ELSE a.nelem

InitLoop ==
    /\ \E f \in LoopBases :
          /\ args \in LoopArgs(f)
          /\ \E n \in {args.start + k : k \in 0..MaxUnitSrc}
                      \cup (IF args.loop \in ElementLoops THEN {Len(EncFile(f))} ELSE {}) :
                input = [file |-> f, kind |-> "file", patch |-> <<>>, cut |-> n]
    /\ src = CutSource(input)
    /\ pos = args.start
    /\ pos <= Len(src)
    /\ pc = "loop"
    /\ version = None /\ numrecs = None
    /\ dim_list = None /\ att_list = None /\ var_list = None
    /\ header = None /\ non_recs = None /\ recs = None
    /\ result = None /\ err = None
    /\ ret = Some(<<>>)
    /\ iter = 0

\* one iteration: the body's `?`, then result.push when the loop collects
Iterate(r, push) ==
    /\ IF r.ok
       THEN /\ iter' = iter + 1
            /\ pos' = r.pos
            /\ ret' = Some(IF push THEN Append(ret[1], r.val) ELSE ret[1])
            /\ UNCHANGED <<pc, err>>
       ELSE Fail(r) /\ UNCHANGED <<iter, ret>>
    /\ UNCHANGED <<src, version, numrecs, dim_list, att_list, var_list, header,
                   non_recs, recs, result, input, args>>

\* read_dim_list: for _ in 0..nelem { read_dimension(reader)?; push }
IterDim ==
    /\ pc = "loop" /\ args.loop = "read_dim_list" /\ iter < LoopCount(args)
    /\ Iterate(read_dimension(src, pos), TRUE)

\* read_att_list: for _ in 0..nelem { read_attribute(reader)?; push }
IterAtt ==
    /\ pc = "loop" /\ args.loop = "read_att_list" /\ iter < LoopCount(args)
    /\ \E overflow_checks \in BOOLEAN :
          Iterate(read_attribute(src, pos, overflow_checks), TRUE)

\* read_var_list: for _ in 0..nelem { read_variable(reader, version)?; push }
IterVar ==
    /\ pc = "loop" /\ args.loop = "read_var_list" /\ iter < LoopCount(args)
    /\ \E overflow_checks \in BOOLEAN :
          Iterate(read_variable(src, pos, args.version, overflow_checks), TRUE)

\* read_dimension_ids: for _ in 0..nelems { read_exact(&mut buffer)?; push }
IterDimId ==
    /\ pc = "loop" /\ args.loop = "read_dimension_ids" /\ iter < LoopCount(args)
    /\ Iterate(The({IF ~r.ok THEN r ELSE Ok(FromBeBytes(r.val), r.pos)
                     : r \in {ReadExact(src, pos, 4)}}), TRUE)

\* read_values: for _ in 0..nvals { read_exact(&mut buffer)?; push }
IterValue ==
    /\ pc = "loop" /\ args.loop = "read_values" /\ iter < LoopCount(args)
    /\ Iterate(The({IF ~r.ok THEN r ELSE Ok(NetCDFValue(args.nc_type, r.val), r.pos)
                     : r \in {ReadExact(src, pos, BufferLen(args.nc_type))}}), TRUE)

\* read_values: for _ in 0..padding { read_exact(&mut buffer)?; }
IterPadding ==
    /\ pc = "loop" /\ args.loop = "padding" /\ iter < LoopCount(args)
    /\ Iterate(ReadExact(src, pos, BufferLen(args.nc_type)), FALSE)

\* the range 0..nelem is exhausted
LoopDone ==
    /\ pc = "loop"
    /\ iter = LoopCount(args)
    /\ pc' = "returned"
    /\ UNCHANGED <<src, pos, version, numrecs, dim_list, att_list, var_list,
                   header, non_recs, recs, result, err, input, args, ret, iter>>

NextLoop ==
    \/ IterDim
    \/ IterAtt
    \/ IterVar
    \/ IterDimId
    \/ IterValue
    \/ IterPadding
    \/ LoopDone

NextCut == Next \/ NextLoop

\* the call is one sequential pass: a step that can be taken is taken
SpecCut == (InitCut \/ InitLoop) /\ [][NextCut]_vars /\ WF_vars(NextCut)

(***************************************************************************)
(* Properties of load_reader                                               *)
(***************************************************************************)
\* a file of the family that follows the layout: at most one dimension of
\* length 0, and the variables' offsets do not decrease in var_list order
WellFormed(in) ==
    /\ in.kind = "file"
    /\ Cardinality({i \in 1..Len(in.file.dimLens) : in.file.dimLens[i] = 0}) <= 1
    /\ \A j, k \in 1..in.file.nvars :
          j < k => VarBegin(in.file, j) <= VarBegin(in.file, k)

DeclaredAtts(f) == IF f.att = <<>> THEN 0 ELSE 1

\* C3: on a well-formed CDF-1 or CDF-2 input load_reader succeeds, and every
\* decoded list has as many elements as the count its second tag declares.
C3_ListLengths ==
    WellFormed(input) =>
        /\ pc # "failed"
        /\ pc = "done" =>
              LET h == result[1].header IN
              /\ Len(h.dim_list) = Len(input.file.dimLens)
              /\ Len(h.att_list) = DeclaredAtts(input.file)
              /\ Len(h.var_list) = input.file.nvars
              /\ \A j \in 1..Len(h.var_list) :
                    Len(h.var_list[j].att_list) = DeclaredAtts(input.file)

\* a Variable is a record Variable when its first dimension id is a
\* dimension of length 0
IsRecordVariable(h, v) ==
    /\ v.dimid # <<>>
    /\ v.dimid[1] + 1 <= Len(h.dim_list)
    /\ h.dim_list[v.dimid[1] + 1].length = 0

RecordVariables(h) ==
    {j \in 1..Len(h.var_list) : IsRecordVariable(h, h.var_list[j])}

NonRecordVariables(h) ==
    {j \in 1..Len(h.var_list) : ~IsRecordVariable(h, h.var_list[j])}

\* C4: after a successful load_reader, data.non_recs holds one VarData per
\* non-record Variable of the header's var_list.
C4_OneVarDataPerNonRecord ==
    pc = "done" =>
        Len(result[1].data.non_recs) = Cardinality(NonRecordVariables(result[1].header))

\* C5: with a Streaming numrecs, at least one record Variable and N well-formed
\* records after the header, data.recs holds N Records of one Slab per record
\* Variable.
C5_StreamingRecords ==
    (/\ pc = "done"
     /\ WellFormed(input)
     /\ result[1].header.numrecs = <<"Streaming">>
     /\ RecordVariables(result[1].header) # {})
        => /\ Len(result[1].data.recs) = input.file.nrecs
           /\ \A i \in 1..Len(result[1].data.recs) :
                 Len(result[1].data.recs[i]) = Cardinality(RecordVariables(result[1].header))

\* the files on which the decoder's handling of names and value runs
\* coincides with the layout: name lengths and Byte/Char runs that need no
\* padding or, for runs, the two bytes the decoder happens to skip
Aligned(f) ==
    /\ f.nameLen % 4 = 0
    /\ f.att # <<>> =>
          Padding(TypeNames[f.att[1]], f.att[2]) * TypeWidth[f.att[1]]
              = PadLen(f.att[2] * TypeWidth[f.att[1]])

OffsetKind(ver) == IF ver = "CDF01" THEN "Pos32" ELSE "Pos64"

\* C6: in every decoded header all offsets have the width of the file's
\* version, Pos32 (4 bytes) under CDF-1 and Pos64 (8 bytes) under CDF-2; on a
\* file the decoder is aligned with, the header then ends where the layout
\* says and every offset has the value the layout stores.
C6_OffsetWidthByVersion ==
    header # None =>
        LET h == header[1] IN
        /\ h.version \in {"CDF01", "CDF02"}
        /\ \A j \in 1..Len(h.var_list) :
              h.var_list[j].offset[1] = OffsetKind(h.version)
        /\ (input.kind = "file" /\ Aligned(input.file)) =>
              /\ pc = "read_non_records" => pos = HeaderLen(input.file)
              /\ Len(h.var_list) = input.file.nvars
              /\ \A j \in 1..Len(h.var_list) :
                    h.var_list[j].offset[2]
                        = HeaderLen(input.file) + VarBegin(input.file, j)

C6_Witness ==
    /\ header # None
    /\ header[1].version = "CDF02"
    /\ Len(header[1].var_list) = 2
    /\ header[1].var_list[2].offset[1] = "Pos64"
    /\ header[1].var_list[2].offset[2] > header[1].var_list[1].offset[2]

FirstFour == SubSeq(src, 1, 4)

\* C7: load_reader dispatches on the first 4 bytes only: the CDF-1 and CDF-2
\* markers go on to read numrecs, the HDF5 marker returns HDF5NotSupportetYet
\* with nothing further read, any other value returns UnknownVersion carrying
\* those 4 bytes.
C7_VersionDispatch ==
    (Len(src) >= 4 /\ pc # "read_version") =>
        /\ FirstFour = VERSION1 =>
              /\ version = Some("CDF01")
              /\ pos >= 4
              /\ pc # "match_version" => (numrecs # None \/ err = IOError)
        /\ FirstFour = VERSION2 =>
              /\ version = Some("CDF02")
              /\ pos >= 4
              /\ pc # "match_version" => (numrecs # None \/ err = IOError)
        /\ FirstFour = VERSION4 =>
              /\ version = Some("HDF5")
              /\ numrecs = None
              /\ pos = 4
              /\ pc # "match_version" =>
                    (pc = "failed" /\ err = <<"HDF5NotSupportetYet">>
                     /\ err[1] # "UnknownVersion")
        /\ FirstFour \notin {VERSION1, VERSION2, VERSION4} =>
              /\ pc = "failed"
              /\ err = <<"UnknownVersion", FirstFour>>
              /\ pos = 4
              /\ version = None

C7_Witness ==
    /\ pc = "failed"
    /\ err = <<"HDF5NotSupportetYet">>
    /\ FirstFour = VERSION4
    /\ pos = 4
    /\ Len(src) > 4

DimTag1 == SubSeq(src, 9, 12)

DimTag2 == SubSeq(src, 13, 16)

\* C8: when the two tags of the dim_list are not both zero and the first is
\* not the dimension marker, load_reader returns DimListTag carrying both
\* tags, having read nothing after them, and no Header is built.
C8_DimListTagMismatch ==
    (/\ Len(src) >= 16
     /\ numrecs # None
     /\ pc # "read_dim_list"
     /\ ~(DimTag1 = ZERO /\ DimTag2 = ZERO)
     /\ DimTag1 # NC_DIMENSION)
        => /\ pc = "failed"
           /\ err = <<"DimListTag", DimTag1, DimTag2>>
           /\ pos = 16
           /\ dim_list = None
           /\ header = None
           /\ result = None

C8_Witness ==
    /\ pc = "failed"
    /\ err = <<"DimListTag", OtherTag, <<0, 0, 0, 1>>>>
    /\ pos = 16
    /\ Len(src) > 16

\* C9: a tag mismatch at the start of the var_list (tags neither both zero
\* nor starting with the variable marker) returns an error whose kind is not
\* the kind returned for an attribute list (nor for the dimension list).
C9_VarListTagNamed ==
    [][(/\ pc = "read_var_list"
        /\ Len(src) >= pos + 8
        /\ SubSeq(src, pos + 1, pos + 4) # NC_VARIABLE
        /\ SubSeq(src, pos + 1, pos + 8) # ZERO \o ZERO)
          => (pc' = "failed" /\ err'[1] \notin {"AttrListTag", "DimListTag"})]_vars

\* C10: when the type tag of an attribute is none of 00 00 00 01 .. 06,
\* decoding fails with NCType carrying that tag, the cursor standing right
\* after the tag (neither nvals nor a value byte read).
C10_UnknownTypeBeforeValues ==
    (/\ input.kind = "nctype"
     /\ pc \notin {"read_version", "match_version", "read_dim_list", "read_att_list"})
        => /\ pc = "failed"
           /\ err = <<"NCType", input.patch>>
           /\ pos = AttTypeAt(input.file) + 4

EmptyFiles == {VERSION1 \o Zeros(28), VERSION2 \o Zeros(28)}

EmptyHeader ==
    [version |-> IF FirstFour = VERSION1 THEN "CDF01" ELSE "CDF02",
     numrecs |-> <<"Normal", 0>>,
     dim_list |-> <<>>, att_list |-> <<>>, var_list |-> <<>>]

\* C11: a CDF-1 or CDF-2 marker, a numrecs of 0 and three lists whose two
\* tags are all zero decode successfully to a Header with empty dim_list,
\* att_list and var_list and a Data with non_recs = [] and recs = []; each
\* empty list takes 8 bytes and the call has consumed exactly 32 bytes.
C11_EmptyFile ==
    src \in EmptyFiles =>
        /\ pc # "failed"
        /\ err = None
        /\ pc = "read_dim_list" => pos = 8
        /\ pc = "read_att_list" => (pos = 16 /\ dim_list = Some(<<>>))
        /\ pc = "read_var_list" => (pos = 24 /\ att_list = Some(<<>>))
        /\ pc \in {"read_non_records", "read_records", "done"} =>
              (pos = 32 /\ header = Some(EmptyHeader))
        /\ pc = "done" =>
              result = Some([header |-> EmptyHeader,
                             data |-> [non_recs |-> <<>>, recs |-> <<>>]])

C11_Witness ==
    /\ src = VERSION2 \o Zeros(28)
    /\ pc = "done"
    /\ pos = 32
    /\ result[1].header.var_list = <<>>
    /\ result[1].data.recs = <<>>

\* C13: read_offset is reached through read_var_list only, and read_var_list
\* runs with version CDF01 or CDF02 only: a source with the HDF5 marker is
\* rejected before any list is read, so load_reader never returns
\* UnknownOffsetVersion.
C13_OffsetVersionResolved ==
    /\ err # <<"UnknownOffsetVersion">>
    /\ pc \in {"read_dim_list", "read_att_list", "read_var_list"} =>
          version \in {Some("CDF01"), Some("CDF02")}
    /\ var_list # None =>
          /\ version \in {Some("CDF01"), Some("CDF02")}
          /\ \A j \in 1..Len(var_list[1]) :
                var_list[1][j].offset[1] \in {"Pos32", "Pos64"}
    /\ version = Some("HDF5") =>
          (pc \in {"match_version", "failed"} /\ numrecs = None /\ var_list = None)

\* a source with the HDF5 marker followed by a header that holds a variable
C13_Witness ==
    /\ input.kind = "version"
    /\ input.patch = VERSION4
    /\ input.file.nvars = 1
    /\ input.file.nameLen = 0
    /\ pc = "failed"
    /\ version = Some("HDF5")
    /\ var_list = None

ZeroLengthDims(dims) == {i \in 1..Len(dims) : dims[i].length = 0}

\* C14: load_reader never succeeds with a Header whose dim_list holds two or
\* more dimensions of length 0.
C14_AtMostOneRecordDimension ==
    pc = "done" =>
        Cardinality(ZeroLengthDims(result[1].header.dim_list)) <= 1

\* read_name at p gets fewer bytes than the name declares: the source ends
\* inside the name (declared lengths below 2^31, the integers of the model)
NameCut(s, p) ==
    /\ p + 4 <= Len(s)
    /\ s[p + 1] < 128
    /\ FromBeBytes(SubSeq(s, p + 1, p + 4)) > Len(s) - (p + 4)

\* C12: when read_header succeeds on a byte sequence after consuming c
\* bytes, load_reader on a source holding fewer than c of those bytes builds
\* no Header and no result and ends in an error; and no decoder of a list
\* element succeeds when the source ends inside the element's name, so no
\* successful result holds a shortened name.
C12_AllOrNothing ==
    args = None =>
        \A full \in {read_header(Source(input), 0, oc) : oc \in BOOLEAN} :
        /\ (header # None /\ input.cut = Len(Source(input))) =>
              /\ full.ok
              /\ header = Some(full.val)
              /\ pc = "read_non_records" => pos = full.pos
        /\ (full.ok /\ input.cut < full.pos) =>
              /\ pc \in {"read_version", "match_version", "read_dim_list",
                          "read_att_list", "read_var_list", "failed"}
              /\ header = None
              /\ result = None
              /\ pc = "failed" => err # None
        /\ pc = "read_version" =>
              \A p \in (NameStarts(input.file)
                          \cup {Len(src) - k : k \in 4..(MaxNameLen + 4)})
                         \cap (0..Len(src)) :
                  NameCut(src, p) =>
                      /\ ~read_dimension(src, p).ok
                      /\ \A oc \in BOOLEAN :
                            /\ ~read_attribute(src, p, oc).ok
                            /\ ~read_variable(src, p, "CDF01", oc).ok
                            /\ ~read_variable(src, p, "CDF02", oc).ok

\* a file whose header decodes, cut inside the name of its dimension
C12_Witness ==
    /\ args = None
    /\ input.kind = "file"
    /\ input.file.nameLen = 4
    /\ input.file.dimLens = <<2>>
    /\ read_header(Source(input), 0, TRUE).ok
    /\ input.cut = DimListAt(input.file) + 8 + 4 + 2
    /\ NameCut(src, DimListAt(input.file) + 8)
    /\ pc = "failed"
    /\ err = IOError
    /\ pos = Len(src)

\* what the loop computes when it is run as a whole
LoopResult(a, oc) ==
    CASE a.loop = "read_dim_list" -> DimLoop(src, a.start, a.nelem, <<>>)
      [] a.loop = "read_att_list" -> AttLoop(src, a.start, a.nelem, <<>>, oc)
      [] a.loop = "read_var_list" ->
            VarLoop(src, a.start, a.version, a.nelem, <<>>, oc)
      [] a.loop = "read_dimension_ids" -> DimIdLoop(src, a.start, a.nelem, <<>>)
      [] a.loop = "read_values" -> ValueLoop(src, a.start, a.nc_type, a.nelem, <<>>)
      [] a.loop = "padding" ->
            PaddingLoop(src, a.start, BufferLen(a.nc_type), a.nelem % 4)

Ended == pc \in {"done", "failed", "returned"}

\* the call has returned exactly one of Ok and Err
OneOutcome ==
    /\ pc # "panicked"
    /\ pc = "done" => (result # None /\ err = None)
    /\ pc = "failed" => (err # None /\ result = None)
    /\ pc = "returned" => err = None
    /\ ~Ended => (result = None /\ err = None)

\* a loop has completed no more iterations than it has consumed bytes
IterationsBounded ==
    args # None =>
        /\ iter <= pos - args.start
        /\ iter <= Len(src)
        /\ iter <= LoopCount(args)
        /\ pc = "returned" => \E oc \in BOOLEAN : LoopResult(args, oc) = Ok(ret[1], pos)
        /\ pc = "failed" => \E oc \in BOOLEAN : LoopResult(args, oc) = Err(err, pos)

\* an iteration consumes at least one byte or returns an error
IterationConsumes ==
    (pc = "loop" /\ pc' # "returned") =>
        \/ (pc' = "loop" /\ iter' = iter + 1 /\ pos' > pos)
        \/ (pc' = "failed" /\ err' # None /\ iter' = iter)

\* C15: load_reader ends on every finite source in exactly one of Ok and
\* Err, whatever counts the source declares: every iteration of every
\* count-driven loop (list elements, dimension ids, values, padding) either
\* consumes at least one byte or returns an error, so a loop completes no
\* more iterations than the source has bytes, and every run ends.
C15_Terminates ==
    /\ [](OneOutcome /\ IterationsBounded /\ pos <= Len(src))
    /\ [][IterationConsumes]_vars
    /\ <>[]Ended

====
